---- MODULE Spec2Model ----
(***************************************************************************)
(* A model of rust-hexdump (src/src/main.rs): the argument parser          *)
(* parse_args, the formatter hexdump and the control flow of main.         *)
(*                                                                         *)
(* Text (String, &str) is a sequence of one-character strings, so that     *)
(* formatting and parsing are computed character by character.  A byte is  *)
(* a number in 0..255.  A usize that comes out of str::parse is kept as    *)
(* its canonical decimal numeral (a sequence of digits 0..9 without        *)
(* leading zeros), because usize::MAX = 2^64 - 1 on the 64-bit targets     *)
(* modelled here does not fit TLC's 32-bit integers.                        *)
(***************************************************************************)
EXTENDS Integers, Sequences, FiniteSets, TLC

VARIABLES
    args,        \* main / parse_args: the argument list (env::args().collect())
    parsed,      \* the value returned by parse_args(&args), or NotRun
    pc,          \* main: the position of the run
    file,        \* main: what the file system holds for the file name opened
    filename,    \* main: the file name bound at line 17
    max_bytes,   \* main: the optional cap bound at line 17
    buffer,      \* main: the Vec filled by read_to_end (lines 35-41)
    bytes_read,  \* main: <<>>, then <<n>> for the n bound at line 38
    stdout,      \* main: the texts written to standard output, in order
    stderr,      \* main: the texts written to the error stream, in order
    exit_code,   \* main: <<>> while running, <<status>> once the process ended
    skipped,     \* hexdump: full 16-byte chunks of the input before `reader`
    reader,      \* hexdump: the bytes the reader yields (after the skipped ones)
    output       \* hexdump: the returned io::Result<String>, or NotRun

vars == <<args, parsed, pc, file, filename, max_bytes, buffer, bytes_read,
          stdout, stderr, exit_code, skipped, reader, output>>

argVars == <<args, parsed>>
mainVars == <<pc, file, filename, max_bytes, buffer, bytes_read,
              stdout, stderr, exit_code>>
dumpVars == <<skipped, reader, output>>

NotRun == [tag |-> "NotRun"]

Min(a, b) == IF a <= b THEN a ELSE b

(***************************************************************************)
(* Bounds of the model.                                                    *)
(***************************************************************************)
\* the longest argument list given to parse_args alone
MaxArgs == 5
\* the longest argument list of a run of main
MaxMainArgs == 4
\* the longest file of a run of main
MaxFileLen == 5
\* the longest byte sequence given to hexdump alone
MaxLen == 35

(***************************************************************************)
(* Program constants.                                                      *)
(***************************************************************************)
\* buffer.chunks(16) and i * 16
ChunkSize == 16
\* chunk.chunks(2)
PairSize == 2
\* the minimum field width of "{:08x}"
OffsetWidth == 8
\* the minimum field width of "{:02x}"
ByteWidth == 2
\* std::process::exit(1)
ExitFailure == 1
\* the exit status of a Rust process whose main thread panicked
ExitPanic == 101

(***************************************************************************)
(* Formatting: format!("{:0Wx}", n).                                       *)
(***************************************************************************)
HexChars == <<"0", "1", "2", "3", "4", "5", "6", "7",
              "8", "9", "a", "b", "c", "d", "e", "f">>

RECURSIVE LowerHex(_)
\* "{:x}": the lowercase hexadecimal digits of n, at least one, no prefix
LowerHex(n) ==
    IF n < 16 THEN <<HexChars[n + 1]>>
    ELSE LowerHex(n \div 16) \o <<HexChars[(n % 16) + 1]>>

RECURSIVE Zeros(_)
Zeros(k) == IF k <= 0 THEN <<>> ELSE <<"0">> \o Zeros(k - 1)

\* "{:0Wx}": W is a MINIMUM width; shorter digit strings are left-padded
\* with '0', longer ones are emitted whole
ZeroPad(width, digits) == Zeros(width - Len(digits)) \o digits

\* a variant of FormatByte without the zero padding: format!("{:x}", b)
FormatByteUnpadded(b) == LowerHex(b)

\* format!("{:02x}", b) for a byte b
FormatByte(b) == ZeroPad(ByteWidth, LowerHex(b))

\* The digits of i * 16 in hexadecimal.  16 is the radix, so the product is
\* the digits of i followed by one 0; it is computed on the digits because
\* i * 16 itself exceeds TLC's 32-bit integers from i = 2^27 on, while a
\* 64-bit usize holds it.
LowerHexTimes16(i) == IF i = 0 THEN <<"0">> ELSE LowerHex(i) \o <<"0">>

\* a variant of FormatOffset that prints the chunk number, not i * 16
FormatOffsetOfIndex(i) == ZeroPad(OffsetWidth, LowerHex(i))

\* format!("{:08x}", i * 16)
FormatOffset(i) == ZeroPad(OffsetWidth, LowerHexTimes16(i))

(***************************************************************************)
(* slice::chunks(n): consecutive runs of n elements, the last one shorter  *)
(* when the length is no multiple of n; no chunk at all for an empty slice.*)
(***************************************************************************)
RECURSIVE ChunksTooLong(_, _)
\* a variant of Chunks whose runs are one element too long
ChunksTooLong(s, n) ==
    IF Len(s) = 0 THEN <<>>
    ELSE LET k == Min(n + 1, Len(s))
         IN  <<SubSeq(s, 1, k)>> \o ChunksTooLong(SubSeq(s, k + 1, Len(s)), n)

RECURSIVE Chunks(_, _)
Chunks(s, n) ==
    IF Len(s) = 0 THEN <<>>
    ELSE LET k == Min(n, Len(s))
         IN  <<SubSeq(s, 1, k)>> \o Chunks(SubSeq(s, k + 1, Len(s)), n)

(***************************************************************************)
(* hexdump (lines 64-88).  Panic marks a run that reached unreachable!().  *)
(***************************************************************************)
Panic == <<"panic">>

\* a variant of FormatPair that keeps the two bytes in input order
FormatPairInOrder(pair) ==
    CASE Len(pair) = 2 -> <<" ">> \o FormatByte(pair[1]) \o FormatByte(pair[2])
      [] Len(pair) = 1 -> <<" ">> \o FormatByte(pair[1])
      [] OTHER -> Panic

\* lines 76-81: one sub-group: a space, then the match on pair.len()
FormatPair(pair) ==
    CASE Len(pair) = 2 -> <<" ">> \o FormatByte(pair[2]) \o FormatByte(pair[1])
      [] Len(pair) = 1 -> <<" ">> \o FormatByte(pair[1])
      [] OTHER -> Panic

RECURSIVE FormatPairs(_)
\* lines 75-82: the inner loop over chunk.chunks(2)
FormatPairs(pairs) ==
    IF Len(pairs) = 0 THEN <<>>
    ELSE LET head == FormatPair(pairs[1])
             rest == FormatPairs(Tail(pairs))
         IN  IF head = Panic \/ rest = Panic THEN Panic ELSE head \o rest

\* lines 72-84: the body of the outer loop for chunk number i
FormatLine(i, chunk) ==
    LET groups == FormatPairs(Chunks(chunk, PairSize))
    IN  IF groups = Panic THEN Panic
        ELSE FormatOffset(i) \o groups \o <<"\n">>

RECURSIVE FormatChunks(_, _)
\* lines 71-85: the outer loop over buffer.chunks(16).enumerate(), from the
\* chunk numbered i on
FormatChunks(i, chunks) ==
    IF Len(chunks) = 0 THEN <<>>
    ELSE LET head == FormatLine(i, chunks[1])
             rest == FormatChunks(i + 1, Tail(chunks))
         IN  IF head = Panic \/ rest = Panic THEN Panic ELSE head \o rest

\* a variant of HexdumpFrom over chunks_exact(16): a short last chunk is
\* dropped
HexdumpFromExact(first, bytes) ==
    FormatChunks(first, SelectSeq(Chunks(bytes, ChunkSize),
                                  LAMBDA c : Len(c) = ChunkSize))

\* What hexdump appends to `output` from chunk number `first` on, for the
\* bytes `bytes` that follow `first` full chunks of the input.
HexdumpFrom(first, bytes) == FormatChunks(first, Chunks(bytes, ChunkSize))

\* hexdump(reader) for a reader that yields `bytes` without error
Hexdump(bytes) == HexdumpFrom(0, bytes)

(***************************************************************************)
(* str::parse::<usize>() (line 56; the type is fixed by Option<usize> in   *)
(* the signature of parse_args).  The standard library's algorithm for an  *)
(* unsigned type: the empty string fails; a lone "+" or "-" fails; one     *)
(* leading "+" is skipped, a leading "-" is not (so it fails as a digit);  *)
(* every remaining character must be a decimal digit; the value must not   *)
(* exceed usize::MAX.                                                      *)
(***************************************************************************)
DecChars == {"0", "1", "2", "3", "4", "5", "6", "7", "8", "9"}

DigitVal(c) == CHOOSE d \in 0..9 : HexChars[d + 1] = c

\* usize::MAX on a 64-bit target, 2^64 - 1, as a numeral
UsizeMax == <<"1", "8", "4", "4", "6", "7", "4", "4", "0", "7",
              "3", "7", "0", "9", "5", "5", "1", "6", "1", "5">>

RECURSIVE StripZeros(_)
\* the canonical numeral of a digit string: no leading zeros, "0" for zero
StripZeros(ds) ==
    IF Len(ds) > 1 /\ ds[1] = "0" THEN StripZeros(Tail(ds)) ELSE ds

RECURSIVE DigitsLeq(_, _)
\* a <= b for two digit strings of the same length
DigitsLeq(a, b) ==
    IF Len(a) = 0 THEN TRUE
    ELSE IF DigitVal(a[1]) # DigitVal(b[1]) THEN DigitVal(a[1]) < DigitVal(b[1])
    ELSE DigitsLeq(Tail(a), Tail(b))

\* a <= b for two canonical numerals
NumeralLeq(a, b) ==
    \/ Len(a) < Len(b)
    \/ Len(a) = Len(b) /\ DigitsLeq(a, b)

RECURSIVE ToNumeral(_)
\* the canonical numeral of a number of the model
ToNumeral(n) ==
    IF n < 10 THEN <<HexChars[n + 1]>>
    ELSE ToNumeral(n \div 10) \o <<HexChars[(n % 10) + 1]>>

RECURSIVE NumeralValue(_)
\* the number a numeral denotes (used only where it fits)
NumeralValue(ds) ==
    IF Len(ds) = 0 THEN 0
    ELSE 10 * NumeralValue(SubSeq(ds, 1, Len(ds) - 1)) + DigitVal(ds[Len(ds)])

ParseFailed == [ok |-> FALSE]

ParseUsize(s) ==
    IF Len(s) = 0 THEN ParseFailed
    ELSE IF Len(s) = 1 /\ s[1] \in {"+", "-"} THEN ParseFailed
    ELSE LET digits == IF s[1] = "+" THEN Tail(s) ELSE s
         IN  IF \E k \in 1..Len(digits) : digits[k] \notin DecChars
             THEN ParseFailed
             ELSE IF ~NumeralLeq(StripZeros(digits), UsizeMax)
             THEN ParseFailed
             ELSE [ok |-> TRUE, value |-> StripZeros(digits)]

(***************************************************************************)
(* parse_args (lines 51-61).  args[k] of the source is args[k + 1] here.   *)
(***************************************************************************)
DashN == <<"-", "n">>

None == [some |-> FALSE]
Some(v) == [some |-> TRUE, value |-> v]

Ok(name, cap) == [tag |-> "Ok", filename |-> name, max_bytes |-> cap]
Err(e) == [tag |-> "Err", error |-> e]

\* a variant of ParseArgs that takes the file name from args[2]
ParseArgsWrongName(a) ==
    CASE Len(a) = 2 -> Ok(a[2], None)
      [] Len(a) = 4 /\ a[2] = DashN ->
            LET len == ParseUsize(a[3])
            IN  IF len.ok THEN Ok(a[3], Some(len.value))
                ELSE Err("InvalidLength")
      [] OTHER -> Err("InvalidUsage")

\* a variant of ParseArgs that parses the length of any 4-element list
\* before it looks at the flag
ParseArgsLengthFirst(a) ==
    CASE Len(a) = 2 -> Ok(a[2], None)
      [] Len(a) = 4 ->
            LET len == ParseUsize(a[3])
            IN  IF ~len.ok THEN Err("InvalidLength")
                ELSE IF a[2] = DashN THEN Ok(a[4], Some(len.value))
                ELSE Err("InvalidUsage")
      [] OTHER -> Err("InvalidUsage")

ParseArgs(a) ==
    CASE Len(a) = 2 -> Ok(a[2], None)
      [] Len(a) = 4 /\ a[2] = DashN ->
            LET len == ParseUsize(a[3])
            IN  IF len.ok THEN Ok(a[4], Some(len.value))
                ELSE Err("InvalidLength")
      [] OTHER -> Err("InvalidUsage")

(***************************************************************************)
(* Inputs.                                                                 *)
(***************************************************************************)
SeqsUpTo(S, n) == UNION {[1..k -> S] : k \in 0..n}

\* one past usize::MAX: 2^64
UsizeMaxPlus1 == SubSeq(UsizeMax, 1, Len(UsizeMax) - 1) \o <<"6">>

\* argument texts: a file name, the flag, lengths that parse (42, 0, +5,
\* usize::MAX) and lengths that do not (-1, the empty text, 2^64)
Tokens == {<<"f">>, DashN, <<"4", "2">>, <<"0">>, <<"+", "5">>, <<"-", "1">>,
           <<>>, UsizeMax, UsizeMaxPlus1}

\* args[0]: parse_args never reads it
ProgNames == {<<"p">>, DashN}

\* the argument lists given to parse_args: the empty list, and a program
\* name followed by up to MaxArgs - 1 texts
ArgLists ==
    {<<>>} \cup {<<p>> \o rest : p \in ProgNames, rest \in SeqsUpTo(Tokens, MaxArgs - 1)}

\* the argument texts of a run of main
MainTokens == {<<"f">>, DashN, <<"0">>, <<"3">>, UsizeMax}

MainArgLists == SeqsUpTo(MainTokens, MaxMainArgs)

\* a byte sequence of length n: start, start + stride, ... (mod 256)
Pattern(n, start, stride) == [k \in 1..n |-> (start + (k - 1) * stride) % 256]

\* the file system's answer for the name opened: no such file, or a file
NoFile == [exists |-> FALSE]
Files == {NoFile} \cup {[exists |-> TRUE, content |-> Pattern(n, 250, 3)] : n \in 0..MaxFileLen}

\* the byte sequences given to hexdump
Inputs == {Pattern(n, start, stride) : n \in 0..MaxLen, start \in {0, 200}, stride \in {1, 37}}

\* The last chunk number whose offset has OffsetWidth hexadecimal digits
\* (offset fffffff0); an input of 4 GiB or more has chunks beyond it.
LastNarrowChunk == 16 ^ (OffsetWidth - 1) - 1

\* hexdump is run on whole inputs (0 chunks skipped) and on the end of an
\* input of about 4 GiB whose first LastNarrowChunk chunks, of any content,
\* are not enumerated: the loop's iterations for them emit one line each.
SkipChoices == {0, LastNarrowChunk}

(***************************************************************************)
(* parse_args on its own.                                                  *)
(***************************************************************************)
mainIdle ==
    /\ pc = "idle"
    /\ file = NoFile
    /\ filename = <<>>
    /\ max_bytes = None
    /\ buffer = <<>>
    /\ bytes_read = <<>>
    /\ stdout = <<>>
    /\ stderr = <<>>
    /\ exit_code = <<>>

dumpIdle ==
    /\ skipped = 0
    /\ reader = <<>>
    /\ output = NotRun

InitArgs ==
    /\ args \in ArgLists
    /\ parsed = NotRun
    /\ mainIdle
    /\ dumpIdle

\* a call parse_args(&args)
CallParseArgs ==
    /\ pc = "idle"
    /\ parsed = NotRun
    /\ parsed' = ParseArgs(args)
    /\ UNCHANGED <<args, mainVars, dumpVars>>

NextArgs == CallParseArgs

SpecArgs == InitArgs /\ [][NextArgs]_vars

(***************************************************************************)
(* hexdump on its own.                                                     *)
(***************************************************************************)
InitDump ==
    /\ skipped \in SkipChoices
    /\ reader \in Inputs
    /\ output = NotRun
    /\ args = <<>>
    /\ parsed = NotRun
    /\ mainIdle

\* hexdump(reader) when reader.read_to_end succeeds (line 66)
CallHexdump ==
    /\ output = NotRun
    /\ LET text == HexdumpFrom(skipped, reader)
       IN  output' = IF text = Panic THEN [tag |-> "Panic"]
                     ELSE [tag |-> "Ok", text |-> text]
    /\ UNCHANGED <<skipped, reader, argVars, mainVars>>

\* hexdump(reader) when reader.read_to_end fails: the ? of line 66 returns
\* the error before anything is formatted
HexdumpReadError ==
    /\ output = NotRun
    /\ output' = [tag |-> "Err"]
    /\ UNCHANGED <<skipped, reader, argVars, mainVars>>

NextDump == CallHexdump \/ HexdumpReadError

SpecDump == InitDump /\ [][NextDump]_vars

(***************************************************************************)
(* main (lines 12-48).                                                     *)
(***************************************************************************)
\* eprintln!("Usage: {} [-n LEN] FILE", args[0])
UsageMessage(prog) == <<"Usage: ", prog, " [-n LEN] FILE\n">>

\* eprintln!("Invalid length argument")
LengthMessage == <<"Invalid length argument\n">>

\* what the runtime prints when args[0] is out of bounds
IndexPanicMessage == <<"index out of bounds: the len is 0 but the index is 0\n">>

\* what the runtime prints when main returns Err(e): "Error: {e:?}"
IoErrorMessage == <<"Error: ", "io::Error", "\n">>

\* a variant of BytesToRead that ignores the cap
BytesToReadAll(cap, content) == content

\* file.take(len as u64).read_to_end(..) / file.read_to_end(..): the bytes a
\* complete read appends to the buffer
BytesToRead(cap, content) ==
    IF cap.some /\ ~NumeralLeq(ToNumeral(Len(content)), cap.value)
    THEN SubSeq(content, 1, NumeralValue(cap.value))
    ELSE content

Init ==
    /\ args \in MainArgLists
    /\ file \in Files
    /\ parsed = NotRun
    /\ pc = "start"
    /\ filename = <<>>
    /\ max_bytes = None
    /\ buffer = <<>>
    /\ bytes_read = <<>>
    /\ stdout = <<>>
    /\ stderr = <<>>
    /\ exit_code = <<>>
    /\ dumpIdle

\* lines 17-18: parse_args returns Ok
ParseOk ==
    /\ pc = "start"
    /\ ParseArgs(args).tag = "Ok"
    /\ parsed' = ParseArgs(args)
    /\ filename' = ParseArgs(args).filename
    /\ max_bytes' = ParseArgs(args).max_bytes
    /\ pc' = "open"
    /\ UNCHANGED <<args, file, buffer, bytes_read, stdout, stderr, exit_code, dumpVars>>

\* lines 19-23: Err(InvalidUsage).  args[0] is indexed without a check: on
\* an empty argument list the index panics before anything is printed.
UsageError ==
    /\ pc = "start"
    /\ ParseArgs(args) = Err("InvalidUsage")
    /\ parsed' = ParseArgs(args)
    /\ IF Len(args) = 0
       THEN /\ stderr' = Append(stderr, IndexPanicMessage)
            /\ exit_code' = <<ExitPanic>>
       ELSE /\ stderr' = Append(stderr, UsageMessage(args[1]))
            /\ exit_code' = <<ExitFailure>>
    /\ pc' = "exited"
    /\ UNCHANGED <<args, file, filename, max_bytes, buffer, bytes_read, stdout, dumpVars>>

\* lines 24-28: Err(InvalidLength)
LengthError ==
    /\ pc = "start"
    /\ ParseArgs(args) = Err("InvalidLength")
    /\ parsed' = ParseArgs(args)
    /\ stderr' = Append(stderr, LengthMessage)
    /\ exit_code' = <<ExitFailure>>
    /\ pc' = "exited"
    /\ UNCHANGED <<args, file, filename, max_bytes, buffer, bytes_read, stdout, dumpVars>>

\* line 32: File::open(filename) succeeds
OpenOk ==
    /\ pc = "open"
    /\ file.exists
    /\ pc' = "read"
    /\ UNCHANGED <<args, parsed, file, filename, max_bytes, buffer, bytes_read,
                   stdout, stderr, exit_code, dumpVars>>

\* line 32: File::open(filename) fails; the ? returns the error from main
OpenError ==
    /\ pc = "open"
    /\ ~file.exists
    /\ stderr' = Append(stderr, IoErrorMessage)
    /\ exit_code' = <<ExitFailure>>
    /\ pc' = "exited"
    /\ UNCHANGED <<args, parsed, file, filename, max_bytes, buffer, bytes_read,
                   stdout, dumpVars>>

\* lines 35-41: the read completes
ReadOk ==
    /\ pc = "read"
    /\ buffer' = BytesToRead(max_bytes, file.content)
    /\ bytes_read' = <<Len(buffer')>>
    /\ pc' = "dump"
    /\ UNCHANGED <<args, parsed, file, filename, max_bytes, stdout, stderr,
                   exit_code, dumpVars>>

\* a variant of ReadError that dumps what was read before the failure
ReadErrorDumpsPartial ==
    /\ pc = "read"
    /\ \E n \in 0..Len(BytesToRead(max_bytes, file.content)) :
          /\ buffer' = SubSeq(BytesToRead(max_bytes, file.content), 1, n)
          /\ stdout' = Append(stdout, Hexdump(buffer'))
    /\ stderr' = Append(stderr, IoErrorMessage)
    /\ exit_code' = <<ExitFailure>>
    /\ pc' = "exited"
    /\ UNCHANGED <<args, parsed, file, filename, max_bytes, bytes_read, dumpVars>>

\* lines 35-41: a read fails after n bytes; read_to_end leaves them in the
\* buffer and the ? returns the error from main
ReadError ==
    /\ pc = "read"
    /\ \E n \in 0..Len(BytesToRead(max_bytes, file.content)) :
          buffer' = SubSeq(BytesToRead(max_bytes, file.content), 1, n)
    /\ stderr' = Append(stderr, IoErrorMessage)
    /\ exit_code' = <<ExitFailure>>
    /\ pc' = "exited"
    /\ UNCHANGED <<args, parsed, file, filename, max_bytes, bytes_read, stdout, dumpVars>>

\* lines 44-47: hexdump(&buffer[..bytes_read])?, print!, Ok(())
Dump ==
    /\ pc = "dump"
    /\ LET text == Hexdump(SubSeq(buffer, 1, bytes_read[1]))
       IN  IF text = Panic
           THEN /\ stdout' = stdout
                /\ exit_code' = <<ExitPanic>>
           ELSE /\ stdout' = Append(stdout, text)
                /\ exit_code' = <<0>>
    /\ pc' = "exited"
    /\ UNCHANGED <<args, parsed, file, filename, max_bytes, buffer, bytes_read,
                   stderr, dumpVars>>

Next ==
    \/ ParseOk
    \/ UsageError
    \/ LengthError
    \/ OpenOk
    \/ OpenError
    \/ ReadOk
    \/ ReadError
    \/ Dump

Spec == Init /\ [][Next]_vars

(***************************************************************************)
(* Reading a dump back: the vocabulary of the properties below.  None of   *)
(* it is used by the model of the program.                                 *)
(***************************************************************************)
RECURSIVE SplitOn(_, _)
\* text split at every occurrence of the character c (k occurrences give
\* k + 1 pieces, the last one what follows the last occurrence)
SplitOn(text, c) ==
    IF \A k \in 1..Len(text) : text[k] # c THEN <<text>>
    ELSE LET at == CHOOSE k \in 1..Len(text) :
                       text[k] = c /\ \A m \in 1..(k - 1) : text[m] # c
         IN  <<SubSeq(text, 1, at - 1)>> \o SplitOn(SubSeq(text, at + 1, Len(text)), c)

\* the newline-terminated lines of a text, without their newlines
LinesOf(text) ==
    LET pieces == SplitOn(text, "\n") IN SubSeq(pieces, 1, Len(pieces) - 1)

\* what follows the last newline of a text
Unterminated(text) ==
    LET pieces == SplitOn(text, "\n") IN pieces[Len(pieces)]

\* the offset field of a line: what precedes its first space
OffsetField(line) == SplitOn(line, " ")[1]

\* the group tokens of a line: the space-separated pieces after the offset
GroupTokens(line) == Tail(SplitOn(line, " "))

HexCharSet == {HexChars[k] : k \in 1..16}

IsLowerHex(ds) == \A k \in 1..Len(ds) : ds[k] \in HexCharSet

HexCharVal(c) == CHOOSE d \in 0..15 : HexChars[d + 1] = c

RECURSIVE HexValue(_)
\* the number a string of hexadecimal digits denotes
HexValue(ds) ==
    IF Len(ds) = 0 THEN 0
    ELSE 16 * HexValue(SubSeq(ds, 1, Len(ds) - 1)) + HexCharVal(ds[Len(ds)])

\* the two lowercase hexadecimal digits of a byte
TwoDigits(b) == <<HexChars[(b \div 16) + 1], HexChars[(b % 16) + 1]>>

\* field denotes i * 16: in radix 16 that is the digits of i followed by a 0
\* (stated on the digits: i * 16 is beyond TLC's integers near 2^32)
DenotesTimes16(field, i) ==
    /\ Len(field) >= 1
    /\ IsLowerHex(field)
    /\ field[Len(field)] = "0"
    /\ HexValue(SubSeq(field, 1, Len(field) - 1)) = i

CeilDiv(n, d) == (n + d - 1) \div d

\* the state after hexdump returned Ok
Dumped == output.tag = "Ok"

\* the lines hexdump returned for the bytes of `reader`
DumpLines == LinesOf(output.text)

\* the number of bytes a line renders: two digits each
BytesRendered(line) ==
    LET tokens == GroupTokens(line)
        RECURSIVE Sum(_)
        Sum(k) == IF k = 0 THEN 0 ELSE Sum(k - 1) + Len(tokens[k])
    IN  Sum(Len(tokens)) \div 2

\* bytes that no byte sequence holds: the result of a decoding that failed
Undecodable == <<-1>>

RECURSIVE DecodeTokens(_)
\* a 4-digit token is two bytes, swapped back; a 2-digit token is one byte
DecodeTokens(tokens) ==
    IF Len(tokens) = 0 THEN <<>>
    ELSE LET t == tokens[1]
             rest == DecodeTokens(Tail(tokens))
             head == IF Len(t) = 4 /\ IsLowerHex(t)
                     THEN <<HexValue(SubSeq(t, 3, 4)), HexValue(SubSeq(t, 1, 2))>>
                     ELSE IF Len(t) = 2 /\ IsLowerHex(t) THEN <<HexValue(t)>>
                     ELSE Undecodable
         IN  IF head = Undecodable \/ rest = Undecodable THEN Undecodable
             ELSE head \o rest

\* the tokens of a line once its first 8 characters are dropped
TokensAfterEight(line) ==
    LET pieces == SplitOn(SubSeq(line, OffsetWidth + 1, Len(line)), " ")
    IN  IF pieces[1] = <<>> THEN Tail(pieces) ELSE pieces

RECURSIVE DecodeLines(_, _)
\* the bytes of a sequence of lines.  fixedWidth: the offset dropped from a
\* line is its first 8 characters; otherwise it is the line's offset field.
DecodeLines(lines, fixedWidth) ==
    IF Len(lines) = 0 THEN <<>>
    ELSE LET tokens == IF fixedWidth THEN TokensAfterEight(lines[1])
                       ELSE GroupTokens(lines[1])
             head == DecodeTokens(tokens)
             rest == DecodeLines(Tail(lines), fixedWidth)
         IN  IF head = Undecodable \/ rest = Undecodable THEN Undecodable
             ELSE head \o rest

RECURSIVE ExpectedGroups(_, _, _)
\* the groups of the bytes lo..hi of a sequence, written out pair by pair
ExpectedGroups(bytes, lo, hi) ==
    IF lo > hi THEN <<>>
    ELSE IF lo = hi THEN <<" ">> \o TwoDigits(bytes[lo])
    ELSE <<" ">> \o TwoDigits(bytes[lo + 1]) \o TwoDigits(bytes[lo])
             \o ExpectedGroups(bytes, lo + 2, hi)

(***************************************************************************)
(* Properties of hexdump, checked under SpecDump.  With `skipped` chunks   *)
(* before `reader`, the input has N = 16 * skipped + Len(reader) bytes and *)
(* the line for the j-th chunk of `reader` is output line skipped + j - 1  *)
(* (zero-based); the skipped chunks are full, one line each.               *)
(***************************************************************************)

\* C3: a buffer of N bytes gives exactly ceil(N/16) newline-terminated
\* lines (the empty string for N = 0); every line but the last renders 16
\* bytes as eight 2-byte groups, the last renders the remaining
\* N - 16 * (ceil(N/16) - 1) bytes, between 1 and 16.
C3_LineCount ==
    Dumped =>
        LET n == Len(reader)
            lines == DumpLines
        IN  /\ Unterminated(output.text) = <<>>
            /\ Len(lines) = CeilDiv(n, 16)
            /\ (n = 0 => output.text = <<>>)
            /\ \A j \in 1..(Len(lines) - 1) :
                  /\ BytesRendered(lines[j]) = 16
                  /\ Len(GroupTokens(lines[j])) = 8
                  /\ \A g \in 1..8 : Len(GroupTokens(lines[j])[g]) = 4
            /\ Len(lines) > 0 =>
                  /\ BytesRendered(lines[Len(lines)]) = n - 16 * (CeilDiv(n, 16) - 1)
                  /\ BytesRendered(lines[Len(lines)]) \in 1..16

\* C3's case: a whole input of 20 bytes was dumped as a full and a partial line
C3_Witness ==
    /\ Dumped
    /\ skipped = 0
    /\ Len(reader) = 20
    /\ Len(DumpLines) = 2
    /\ BytesRendered(DumpLines[2]) = 4

\* the first byte a line renders: the low byte of its first group
FirstByteRendered(line) ==
    LET t == GroupTokens(line)[1]
    IN  IF Len(t) = 4 THEN HexValue(SubSeq(t, 3, 4)) ELSE HexValue(t)

\* C4 as stated: output line i begins with i * 16 as exactly 8 lowercase
\* hexadecimal digits, zero-padded, no prefix: the offset field is 8 wide on
\* every line and is the input position of the first byte of the line.
C4_OffsetExactlyEight ==
    Dumped =>
        \A j \in 1..Len(DumpLines) :
            /\ Len(OffsetField(DumpLines[j])) = 8
            /\ DenotesTimes16(OffsetField(DumpLines[j]), skipped + j - 1)
            /\ FirstByteRendered(DumpLines[j]) = reader[16 * (j - 1) + 1]

\* C4 amended: output line i begins with i * 16 in lowercase hexadecimal
\* digits, zero-padded to at least 8 digits, no prefix: the offset field is
\* exactly 8 wide on the lines whose offset is below 16^8 = 2^32 and has the
\* unpadded digits of the offset on the later lines; it is the input
\* position of the first byte of the line.
C4_OffsetAtLeastEight ==
    Dumped =>
        \A j \in 1..Len(DumpLines) :
            LET field == OffsetField(DumpLines[j])
                i == skipped + j - 1
            IN  /\ Len(field) >= 8
                /\ DenotesTimes16(field, i)
                /\ (i <= LastNarrowChunk <=> Len(field) = 8)
                /\ (Len(field) > 8 => field[1] # "0")
                /\ FirstByteRendered(DumpLines[j]) = reader[16 * (j - 1) + 1]

\* C4's case: the dump of the end of a 4 GiB input, whose lines pass from
\* offset fffffff0 to offset 100000000
C4_Witness ==
    /\ Dumped
    /\ skipped = LastNarrowChunk
    /\ Len(DumpLines) >= 2
    /\ Len(OffsetField(DumpLines[1])) = 8
    /\ Len(OffsetField(DumpLines[2])) = 9

\* C5 as stated: splitting the dump at newlines, dropping the first 8
\* characters of each line and decoding each token (4 digits: two bytes
\* swapped back; 2 digits: one byte) gives back the bytes dumped.
C5_RoundTripEightDigits ==
    Dumped => DecodeLines(DumpLines, TRUE) = reader

\* C5 amended: splitting the dump at newlines, dropping each line's offset
\* field (the digits before its first space) and decoding each token gives
\* back the bytes dumped, in order and in number; so no other byte sequence
\* has the same dump.
C5_RoundTrip ==
    Dumped =>
        /\ DecodeLines(DumpLines, FALSE) = reader
        /\ \A other \in Inputs :
              other # reader => HexdumpFrom(skipped, other) # output.text

\* C5's case: an odd number of bytes over three lines was dumped and read back
C5_Witness ==
    /\ Dumped
    /\ Len(reader) = 35
    /\ Len(DumpLines) = 3
    /\ DecodeLines(DumpLines, FALSE) = reader

\* C6: after its offset a line is, for each sub-group in order, one space
\* and the group's digits, and nothing else up to the newline: b1 b0 for a
\* 2-byte group [b0, b1], b0 alone for a 1-byte group.  A 1-byte group
\* occurs iff N is odd, and only as the last group of the last line.
C6_Groups ==
    Dumped =>
        LET n == Len(reader)
            lines == DumpLines
            short == {jg \in {<<j, g>> : j \in 1..Len(lines), g \in 1..8} :
                         /\ jg[2] <= Len(GroupTokens(lines[jg[1]]))
                         /\ Len(GroupTokens(lines[jg[1]])[jg[2]]) = 2}
        IN  /\ \A j \in 1..Len(lines) :
                  lines[j] = OffsetField(lines[j])
                               \o ExpectedGroups(reader, 16 * (j - 1) + 1, Min(16 * j, n))
            /\ (short # {} <=> n % 2 = 1)
            /\ \A jg \in short :
                  /\ jg[1] = Len(lines)
                  /\ jg[2] = Len(GroupTokens(lines[jg[1]]))

\* C6's case: 19 bytes were dumped, the last line ending in a 1-byte group
C6_Witness ==
    /\ Dumped
    /\ Len(reader) = 19
    /\ Len(DumpLines) = 2
    /\ Len(GroupTokens(DumpLines[2])) = 2
    /\ Len(GroupTokens(DumpLines[2])[2]) = 2

\* C10: every chunk of the 16-byte partition is non-empty and every
\* sub-group of its 2-byte partition has 1 or 2 bytes, so the unreachable!()
\* arm is never run: whenever the read succeeds hexdump returns a string.
C10_NoPanic ==
    /\ \A c \in 1..Len(Chunks(reader, ChunkSize)) :
          LET chunk == Chunks(reader, ChunkSize)[c]
          IN  /\ Len(chunk) >= 1
              /\ \A q \in 1..Len(Chunks(chunk, PairSize)) :
                    Len(Chunks(chunk, PairSize)[q]) \in {1, 2}
    /\ output.tag \in {"NotRun", "Ok", "Err"}
    /\ output.tag = "Ok" => IsLowerHex(SelectSeq(output.text, LAMBDA ch : ch \notin {" ", "\n"}))

\* C10's case: hexdump returned a string for an input with a 1-byte group
C10_Witness ==
    /\ output.tag = "Ok"
    /\ Len(reader) = 33
    /\ Len(Chunks(reader, ChunkSize)) = 3
    /\ Len(Chunks(reader, ChunkSize)[3]) = 1

(***************************************************************************)
(* Properties of parse_args, checked under SpecArgs.  "LEN parses as a     *)
(* non-negative integer" is str::parse::<usize>() succeeding.              *)
(***************************************************************************)
\* the argument list has the shape PROGRAM FILE
IsForm1 == Len(args) = 2

\* the argument list has the shape PROGRAM -n LEN FILE
IsDashNShape == Len(args) = 4 /\ args[2] = DashN

\* the four outcomes of parse_args
IsOkNoLimit(r) == r.tag = "Ok" /\ ~r.max_bytes.some
IsOkLimit(r) == r.tag = "Ok" /\ r.max_bytes.some
IsInvalidUsage(r) == r.tag = "Err" /\ r.error = "InvalidUsage"
IsInvalidLength(r) == r.tag = "Err" /\ r.error = "InvalidLength"

\* C1: parse_args returns, for every argument list of any length, exactly
\* one of the four outcomes; it succeeds exactly on PROGRAM FILE, with
\* (FILE, none), and on PROGRAM -n LEN FILE with LEN parsing as a
\* non-negative integer L, with (FILE, L).
C1_Total ==
    parsed # NotRun =>
        /\ Cardinality({k \in 1..4 :
                \/ k = 1 /\ IsOkNoLimit(parsed)
                \/ k = 2 /\ IsOkLimit(parsed)
                \/ k = 3 /\ IsInvalidUsage(parsed)
                \/ k = 4 /\ IsInvalidLength(parsed)}) = 1
        /\ IsForm1 => parsed = Ok(args[2], None)
        /\ (IsDashNShape /\ ParseUsize(args[3]).ok) =>
              parsed = Ok(args[4], Some(ParseUsize(args[3]).value))
        /\ parsed.tag = "Ok" => (IsForm1 \/ (IsDashNShape /\ ParseUsize(args[3]).ok))

\* C1's case: parse_args returned a file name and the limit 42
C1_Witness ==
    /\ parsed = Ok(<<"f">>, Some(<<"4", "2">>))
    /\ Len(args) = 4
    /\ args[3] = <<"4", "2">>

\* C2: InvalidLength is returned iff the list has exactly 4 elements,
\* args[1] = "-n" and args[2] does not parse ("-1" does not); every list
\* that is neither PROGRAM FILE nor of that shape gives InvalidUsage, also
\* when its args[2] is no number.
C2_ShapeFirst ==
    parsed # NotRun =>
        /\ IsInvalidLength(parsed) <=> (IsDashNShape /\ ~ParseUsize(args[3]).ok)
        /\ (IsDashNShape /\ args[3] = <<"-", "1">>) => IsInvalidLength(parsed)
        /\ (~IsForm1 /\ ~IsDashNShape) => IsInvalidUsage(parsed)

\* C2's case: 4 arguments, args[1] is not "-n" and args[2] is no number:
\* InvalidUsage
C2_Witness ==
    /\ parsed = Err("InvalidUsage")
    /\ Len(args) = 4
    /\ args[2] # DashN
    /\ ~ParseUsize(args[3]).ok

(***************************************************************************)
(* Properties of main, checked under Spec.                                 *)
(***************************************************************************)
\* the bytes main hands to hexdump: &buffer[..bytes_read]
Handed == SubSeq(buffer, 1, bytes_read[1])

\* the read completed: bytes_read is bound
ReadDone == bytes_read # <<>>

\* C7: when the arguments parse to maxBytes = L, the bytes handed to
\* hexdump are the first min(L, file length) bytes of the file, in order
\* (so at most L bytes; with L = 0 the output is the empty string); when
\* maxBytes is none they are the whole file.
C7_TruncateBeforeFormat ==
    ReadDone =>
        LET content == file.content
            k == Len(Handed)
        IN  /\ Handed = SubSeq(content, 1, k)
            /\ k <= Len(content)
            /\ max_bytes.some =>
                  /\ NumeralLeq(ToNumeral(k), max_bytes.value)
                  /\ k = Len(content) \/ ToNumeral(k) = max_bytes.value
            /\ ~max_bytes.some => Handed = content
            /\ stdout # <<>> => stdout = <<Hexdump(SubSeq(content, 1, k))>>
            /\ (stdout # <<>> /\ max_bytes = Some(<<"0">>)) => stdout = << <<>> >>

\* C7's case: -n 3 on a file of 5 bytes: 3 bytes were handed over and dumped
C7_Witness ==
    /\ pc = "exited"
    /\ ReadDone
    /\ max_bytes = Some(<<"3">>)
    /\ Len(file.content) = 5
    /\ Len(Handed) = 3
    /\ stdout # <<>>

\* C8: a run whose arguments match neither form, whatever their number,
\* ends with the usage message (with the program name) on the error stream
\* and exit code 1; a run that matches the -n form with an unparsable
\* length ends with the invalid-length message and exit code 1; neither
\* opens the file.
C8_UsageAndLengthErrors ==
    (pc = "exited" /\ parsed.tag = "Err") =>
        /\ exit_code = <<ExitFailure>>
        /\ Len(stderr) = 1
        /\ IsInvalidUsage(parsed) =>
              /\ Len(args) >= 1
              /\ stderr[1] = UsageMessage(args[1])
        /\ IsInvalidLength(parsed) => stderr[1] = LengthMessage
        /\ UsageMessage(<<>>) # LengthMessage
        /\ ~ReadDone /\ buffer = <<>> /\ stdout = <<>>

\* C9: standard output is written at most once, and only after the
\* arguments parsed, the file opened and the (capped) read completed; a run
\* that ends in InvalidUsage, InvalidLength or an I/O failure writes nothing
\* to it; a run that writes the dump ends with exit code 0.
C9_NoPartialDump ==
    /\ Len(stdout) <= 1
    /\ stdout # <<>> =>
          /\ parsed.tag = "Ok"
          /\ file.exists
          /\ ReadDone
          /\ buffer = BytesToRead(max_bytes, file.content)
          /\ pc = "exited"
          /\ exit_code = <<0>>
    /\ (exit_code # <<>> /\ exit_code # <<0>>) => stdout = <<>>
    /\ (pc = "exited" /\ (parsed.tag = "Err" \/ ~file.exists \/ ~ReadDone)) =>
          /\ stdout = <<>>
          /\ exit_code # <<0>>

\* C9's case: a run wrote a non-empty dump, once, and ended with status 0
C9_Witness ==
    /\ pc = "exited"
    /\ Len(stdout) = 1
    /\ stdout[1] # <<>>
    /\ exit_code = <<0>>

====
